---- MODULE Spec2Model ----
(***************************************************************************)
(* Model of src/app.py: a Streamlit page that loads a wallet's fills and   *)
(* funding history from the Hyperliquid API and derives PnL metrics and a  *)
(* daily cumulative series.                                                *)
(*                                                                         *)
(* Amounts are exact integers (fixed-point units); a cell of a numeric     *)
(* DataFrame column is a record [nan, v] so that the missing value that    *)
(* pd.to_numeric(errors='coerce') produces is a value of its own.          *)
(* Columns coin, dir, px, sz and startPosition are only displayed by the   *)
(* page and are left out of the rows.                                      *)
(***************************************************************************)
EXTENDS Integers, Sequences, FiniteSets, TLC

\* ---------------------------------------------------------------- bounds
MaxFills == 2
MaxFunding == 1
MaxDay == 3

\* ------------------------------------------------------ program constants
MinAddrLen == 42
MsPerDay == 86400000

\* ------------------------------------------------------------- optionals
\* Python None and a present list.
None == [some |-> FALSE, list |-> <<>>]
Some(l) == [some |-> TRUE, list |-> l]
\* Python truthiness of an optional list: None and [] are falsy.
Truthy(x) == x.some /\ x.list # <<>>

\* -------------------------------------------------------- numeric cells
NaN == [nan |-> TRUE, v |-> 0]
Num(n) == [nan |-> FALSE, v |-> n]

\* The numerals the API sample uses; every other text is unparseable.
Numeral ==
  ("0" :> 0) @@ ("1" :> 1) @@ ("2" :> 2) @@ ("3" :> 3) @@ ("10" :> 10)
  @@ ("-5" :> (0 - 5)) @@ ("-2" :> (0 - 2))

\* pd.to_numeric(x, errors='coerce')
to_numeric(s) == IF s \in DOMAIN Numeral THEN Num(Numeral[s]) ELSE NaN

\* pd.to_datetime(t, unit='ms').dt.date, as days since the epoch
to_date(time) == time \div MsPerDay

\* Series.sum(): missing values are skipped, an empty sum is 0.
RECURSIVE SeriesSum(_)
SeriesSum(cells) ==
  IF cells = <<>> THEN 0
  ELSE (IF Head(cells).nan THEN 0 ELSE Head(cells).v) + SeriesSum(Tail(cells))

\* Element-wise arithmetic of two cells: a missing operand gives missing.
CellAdd(a, b) == IF a.nan \/ b.nan THEN NaN ELSE Num(a.v + b.v)
CellSub(a, b) == IF a.nan \/ b.nan THEN NaN ELSE Num(a.v - b.v)

\* Column of a row sequence.
Column(rows, c) == [i \in 1..Len(rows) |-> rows[i][c]]

\* ------------------------------------------------------------ data frames
\* pd.DataFrame(): no columns, no rows.
EmptyFrame == [columns |-> <<>>, rows |-> <<>>]
\* DataFrame.empty
IsEmpty(df) == df.columns = <<>> \/ df.rows = <<>>

\* ------------------------------------------------------------ input data
\* Raw API records.  The API sends amounts as text and time as ms epoch.
Days == 0..(MaxDay - 1)

FillKinds ==
  { [closedPnl |-> "0",   fee |-> "1",   tod |-> 0],
    [closedPnl |-> "10",  fee |-> "2",   tod |-> 3600000],
    [closedPnl |-> "-5",  fee |-> "n/a", tod |-> MsPerDay - 1],
    [closedPnl |-> "n/a", fee |-> "1",   tod |-> 0] }

RawFills ==
  { [time |-> d * MsPerDay + k.tod, closedPnl |-> k.closedPnl, fee |-> k.fee] :
      d \in Days, k \in FillKinds }

RawFundings ==
  { [time |-> d * MsPerDay + 28800000, usdc |-> u] :
      d \in Days, u \in {"-2", "3", "n/a"} }

SeqsUpTo(S, n) == UNION { [1..k -> S] : k \in 0..n }

FillLists == SeqsUpTo(RawFills, MaxFills)
FundingLists == SeqsUpTo(RawFundings, MaxFunding)

\* ------------------------------------------------------------ process_data
FillRow(r) ==
  [time |-> r.time, date |-> to_date(r.time),
   closedPnl |-> to_numeric(r.closedPnl), fee |-> to_numeric(r.fee)]

FundingRow(r) ==
  [time |-> r.time, date |-> to_date(r.time), usdc |-> to_numeric(r.usdc)]

\* process_data without its "if not fills" early return.
process_data_unguarded(fills, funding) ==
  [df_fills |->
     [columns |-> <<"time", "closedPnl", "fee", "date">>,
      rows |-> [i \in 1..Len(fills.list) |-> FillRow(fills.list[i])]],
   df_funding |->
     IF Truthy(funding)
     THEN [columns |-> <<"time", "usdc", "date">>,
           rows |-> [i \in 1..Len(funding.list) |-> FundingRow(funding.list[i])]]
     ELSE [columns |-> <<"time", "date", "usdc", "coin">>, rows |-> <<>>]]

process_data(fills, funding) ==
  IF ~Truthy(fills)
  THEN [df_fills |-> EmptyFrame, df_funding |-> EmptyFrame]
  ELSE [df_fills |->
          [columns |-> <<"time", "closedPnl", "fee", "date">>,
           rows |-> [i \in 1..Len(fills.list) |-> FillRow(fills.list[i])]],
        df_funding |->
          IF Truthy(funding)
          THEN [columns |-> <<"time", "usdc", "date">>,
                rows |-> [i \in 1..Len(funding.list) |-> FundingRow(funding.list[i])]]
          ELSE [columns |-> <<"time", "date", "usdc", "coin">>, rows |-> <<>>]]

\* ------------------------------------------------------- summary metrics
total_closed_pnl(df_fills) == SeriesSum(Column(df_fills.rows, "closedPnl"))

total_trading_fees(df_fills) == SeriesSum(Column(df_fills.rows, "fee"))

total_funding(df_funding) ==
  IF ~IsEmpty(df_funding) THEN SeriesSum(Column(df_funding.rows, "usdc")) ELSE 0

\* Fees added instead of subtracted.
net_pnl_fees_added(closed, fees, funding) == closed + fees + funding

net_pnl(closed, fees, funding) == closed - fees + funding

\* No filter on closedPnl: every fill counts as a closed trade.
NotZero_unfiltered(c) == TRUE

\* Series != 0 and Series > 0: a missing value differs from 0 and is not > 0.
NotZero(c) == c.nan \/ c.v # 0
Positive(c) == ~c.nan /\ c.v > 0

closed_trades(df_fills) == SelectSeq(df_fills.rows, LAMBDA r : NotZero(r.closedPnl))

\* win_rate as the exact fraction num/den of (len(wins) / len(closed_trades)) * 100
win_rate(df_fills) ==
  LET closed == closed_trades(df_fills)
      wins == SelectSeq(closed, LAMBDA r : Positive(r.closedPnl))
  IN IF Len(closed) > 0
     THEN [num |-> Len(wins) * 100, den |-> Len(closed)]
     ELSE [num |-> 0, den |-> 1]

\* -------------------------------------------------------- daily aggregate
DatesOf(rows) == { rows[i].date : i \in 1..Len(rows) }

RECURSIVE Ascending(_)
Ascending(S) ==
  IF S = {} THEN <<>>
  ELSE LET m == CHOOSE x \in S : \A y \in S : x <= y
       IN <<m>> \o Ascending(S \ {m})

OnDate(rows, d) == SelectSeq(rows, LAMBDA r : r.date = d)

\* df_fills.groupby('date')[['closedPnl', 'fee']].sum().reset_index()
daily_fills(df_fills) ==
  LET keys == Ascending(DatesOf(df_fills.rows))
  IN [i \in 1..Len(keys) |->
        [date |-> keys[i],
         closedPnl |-> Num(SeriesSum(Column(OnDate(df_fills.rows, keys[i]), "closedPnl"))),
         fee |-> Num(SeriesSum(Column(OnDate(df_fills.rows, keys[i]), "fee")))]]

\* df_funding.groupby('date')[['usdc']].sum().reset_index()
daily_funding(df_funding) ==
  LET keys == Ascending(DatesOf(df_funding.rows))
  IN [i \in 1..Len(keys) |->
        [date |-> keys[i],
         usdc |-> Num(SeriesSum(Column(OnDate(df_funding.rows, keys[i]), "usdc")))]]

\* The cell of column c in the row of date d, missing when there is no such row.
Lookup(rows, d, c) ==
  IF \E i \in 1..Len(rows) : rows[i].date = d
  THEN rows[CHOOSE i \in 1..Len(rows) : rows[i].date = d][c]
  ELSE NaN

\* how='inner': only the dates both sides have.
merge_inner(left, right) ==
  LET keys == Ascending(DatesOf(left) \cap DatesOf(right))
  IN [i \in 1..Len(keys) |->
        [date |-> keys[i],
         closedPnl |-> Lookup(left, keys[i], "closedPnl"),
         fee |-> Lookup(left, keys[i], "fee"),
         usdc |-> Lookup(right, keys[i], "usdc")]]

\* how='left': only the dates of the fills.
merge_left(left, right) ==
  LET keys == Ascending(DatesOf(left))
  IN [i \in 1..Len(keys) |->
        [date |-> keys[i],
         closedPnl |-> Lookup(left, keys[i], "closedPnl"),
         fee |-> Lookup(left, keys[i], "fee"),
         usdc |-> Lookup(right, keys[i], "usdc")]]

\* pd.merge(left, right, on='date', how='outer'): keys of both, sorted
merge(left, right) ==
  LET keys == Ascending(DatesOf(left) \cup DatesOf(right))
  IN [i \in 1..Len(keys) |->
        [date |-> keys[i],
         closedPnl |-> Lookup(left, keys[i], "closedPnl"),
         fee |-> Lookup(left, keys[i], "fee"),
         usdc |-> Lookup(right, keys[i], "usdc")]]

Fill0(c) == IF c.nan THEN Num(0) ELSE c

\* The merge result left as it is, missing cells kept.
fillna_omitted(rows) == rows

\* DataFrame.fillna(0)
fillna(rows) ==
  [i \in 1..Len(rows) |->
     [date |-> rows[i].date, closedPnl |-> Fill0(rows[i].closedPnl),
      fee |-> Fill0(rows[i].fee), usdc |-> Fill0(rows[i].usdc)]]

\* daily_combined = daily_fills; daily_combined['usdc'] = 0
with_zero_usdc(rows) ==
  [i \in 1..Len(rows) |->
     [date |-> rows[i].date, closedPnl |-> rows[i].closedPnl,
      fee |-> rows[i].fee, usdc |-> Num(0)]]

\* daily_combined['closedPnl'] - daily_combined['fee'] + daily_combined['usdc']
daily_net_pnl(row) == CellAdd(CellSub(row.closedPnl, row.fee), row.usdc)

RECURSIVE InsertByDate(_, _)
InsertByDate(r, sorted) ==
  IF sorted = <<>> THEN <<r>>
  ELSE IF r.date < Head(sorted).date THEN <<r>> \o sorted
  ELSE <<Head(sorted)>> \o InsertByDate(r, Tail(sorted))

\* DataFrame.sort_values('date'): ascending, rows of equal date keep their order
RECURSIVE sort_values(_)
sort_values(rows) ==
  IF rows = <<>> THEN <<>>
  ELSE InsertByDate(rows[Len(rows)], sort_values(SubSeq(rows, 1, Len(rows) - 1)))

\* The daily values themselves, not accumulated.
cumsum_omitted(cells) == cells

\* Series.cumsum(): running sum that skips missing values, which stay missing
cumsum(cells) ==
  [i \in 1..Len(cells) |->
     IF cells[i].nan THEN NaN ELSE Num(SeriesSum(SubSeq(cells, 1, i)))]

daily_combined(df_fills, df_funding) ==
  LET joined == IF ~IsEmpty(df_funding)
                THEN fillna(merge(daily_fills(df_fills), daily_funding(df_funding)))
                ELSE with_zero_usdc(daily_fills(df_fills))
      net == [i \in 1..Len(joined) |->
                [date |-> joined[i].date, closedPnl |-> joined[i].closedPnl,
                 fee |-> joined[i].fee, usdc |-> joined[i].usdc,
                 daily_net_pnl |-> daily_net_pnl(joined[i])]]
      sorted == sort_values(net)
      cum == cumsum(Column(sorted, "daily_net_pnl"))
  IN [i \in 1..Len(sorted) |->
        [date |-> sorted[i].date, closedPnl |-> sorted[i].closedPnl,
         fee |-> sorted[i].fee, usdc |-> sorted[i].usdc,
         daily_net_pnl |-> sorted[i].daily_net_pnl,
         cumulative_pnl |-> cum[i]]]

\* ------------------------------------------------- fetch_hyperliquid_data
\* What the network does to one POST: it raises, or answers with a status.
Responses ==
  { [raised |-> TRUE, status_code |-> 0] } \cup
  { [raised |-> FALSE, status_code |-> c] : c \in {200, 500} }

\* One run's network behaviour: both answers, and whether the bodies decode.
Networks == [fills : Responses, funding : Responses, json_ok : BOOLEAN]

FillsRequest(user) == [type |-> "userFills", user |-> user]
FundingRequest(user) == [type |-> "userFunding", user |-> user]

\* "and" in place of "or": a failure only when both answers are bad.
status_failed_both(r_fills, r_funding) ==
  r_fills.status_code # 200 /\ r_funding.status_code # 200

\* r_fills.status_code != 200 or r_funding.status_code != 200
status_failed(r_fills, r_funding) ==
  r_fills.status_code # 200 \/ r_funding.status_code # 200

\* Returns the pair (fills, funding) with the requests sent and the st.error
\* shown ("none", "api" for the API Error, "conn" for the Connection Error).
fetch_hyperliquid_data(user, net, fills_data, funding_data) ==
  IF net.fills.raised
  THEN [fills |-> None, funding |-> None, error |-> "conn",
        requests |-> <<FillsRequest(user)>>]
  ELSE IF net.funding.raised
  THEN [fills |-> None, funding |-> None, error |-> "conn",
        requests |-> <<FillsRequest(user), FundingRequest(user)>>]
  ELSE IF status_failed(net.fills, net.funding)
  THEN [fills |-> None, funding |-> None, error |-> "api",
        requests |-> <<FillsRequest(user), FundingRequest(user)>>]
  ELSE IF ~net.json_ok
  THEN [fills |-> None, funding |-> None, error |-> "conn",
        requests |-> <<FillsRequest(user), FundingRequest(user)>>]
  ELSE [fills |-> Some(fills_data), funding |-> Some(funding_data), error |-> "none",
        requests |-> <<FillsRequest(user), FundingRequest(user)>>]

\* ------------------------------------------------------------- main block
\* What the page body shows: nothing, the dashboard, or the warning.
\* metrics is a list of at most one record, daily the rows of daily_combined.
NoView == [kind |-> "none", metrics |-> <<>>, daily |-> <<>>]

NotCalled == [called |-> FALSE, df_fills |-> EmptyFrame, df_funding |-> EmptyFrame]

Frames(fills, funding) ==
  LET p == process_data(fills, funding)
  IN [called |-> TRUE, df_fills |-> p.df_fills, df_funding |-> p.df_funding]

\* Lines 104-204: if raw_fills: ... else: st.warning(...)
main_view(fills, funding) ==
  IF Truthy(fills)
  THEN LET p == process_data(fills, funding)
           closed == total_closed_pnl(p.df_fills)
           fees == total_trading_fees(p.df_fills)
           fund == total_funding(p.df_funding)
       IN [kind |-> "dashboard",
           metrics |-> << [total_closed_pnl |-> closed,
                           total_trading_fees |-> fees,
                           total_funding |-> fund,
                           net_pnl |-> net_pnl(closed, fees, fund),
                           win_rate |-> win_rate(p.df_fills)] >>,
           daily |-> daily_combined(p.df_fills, p.df_funding)]
  ELSE [kind |-> "warning", metrics |-> <<>>, daily |-> <<>>]

main_frames(fills, funding) ==
  IF Truthy(fills) THEN Frames(fills, funding) ELSE NotCalled

\* ------------------------------------------------------------------ state
VARIABLES
  data_loaded,   \* st.session_state['data_loaded']
  address,       \* st.session_state['address']
  ui,            \* the sidebar and fetch of the last script run
  raw_fills,     \* raw_fills of the last fetch
  raw_funding,   \* raw_funding of the last fetch
  view,          \* what the page body shows
  pd_out         \* the frames of the last process_data call

vars == <<data_loaded, address, ui, raw_fills, raw_funding, view, pd_out>>

\* A text of n characters.
Text(n) == [i \in 1..n |-> "x"]

Inputs == { Text(n) : n \in {0, MinAddrLen - 1, MinAddrLen, MinAddrLen + 1} }

\* The ledger contents the session can be answered with.
SessionFills ==
  { l \in FillLists : Len(l) <= 1 /\ \A i \in 1..Len(l) : l[i].time < MsPerDay }
SessionFunding ==
  { l \in FundingLists :
      Len(l) <= 1 /\ \A i \in 1..Len(l) : l[i].time < MsPerDay /\ l[i].usdc = "3" }

\* The network that answers as it should.
OkNet ==
  [fills |-> [raised |-> FALSE, status_code |-> 200],
   funding |-> [raised |-> FALSE, status_code |-> 200], json_ok |-> TRUE]

\* ui.net is the network behaviour the run's fetch met (OkNet when no fetch ran).
NoRun ==
  [clicked |-> FALSE, wallet_address |-> <<>>, invalid_error |-> FALSE,
   requests |-> <<>>, fetch_error |-> "none", fetched |-> FALSE, net |-> OkNet]

Init ==
  /\ data_loaded = FALSE
  /\ address = <<>>
  /\ ui = NoRun
  /\ raw_fills = None
  /\ raw_funding = None
  /\ view = NoView
  /\ pd_out = NotCalled

\* One run of the script (lines 88-204) with the text box holding
\* wallet_address and the Load Data button clicked or not.
Script(wallet_address, clicked, net, fills_data, funding_data) ==
  LET invalid == clicked /\ Len(wallet_address) < MinAddrLen
      store == clicked /\ ~invalid
      loaded == IF store THEN TRUE ELSE data_loaded
      addr == IF store THEN wallet_address ELSE address
      f == fetch_hyperliquid_data(addr, net, fills_data, funding_data)
  IN /\ data_loaded' = loaded
     /\ address' = addr
     /\ IF loaded
        THEN /\ ui' = [clicked |-> clicked, wallet_address |-> wallet_address,
                       invalid_error |-> invalid, requests |-> f.requests,
                       fetch_error |-> f.error, fetched |-> TRUE, net |-> net]
             /\ raw_fills' = f.fills
             /\ raw_funding' = f.funding
             /\ view' = main_view(f.fills, f.funding)
             /\ pd_out' = main_frames(f.fills, f.funding)
        ELSE /\ ui' = [clicked |-> clicked, wallet_address |-> wallet_address,
                       invalid_error |-> invalid, requests |-> <<>>,
                       fetch_error |-> "none", fetched |-> FALSE, net |-> OkNet]
             /\ raw_fills' = None
             /\ raw_funding' = None
             /\ view' = NoView
             /\ pd_out' = NotCalled

\* The user presses Load Data.
LoadData ==
  \E w \in Inputs, net \in Networks, fd \in SessionFills, gd \in SessionFunding :
    Script(w, TRUE, net, fd, gd)

\* Any other interaction (editing the text box, switching tabs) reruns the script.
Rerun ==
  \E w \in Inputs, net \in Networks, fd \in SessionFills, gd \in SessionFunding :
    Script(w, FALSE, net, fd, gd)

Next == LoadData \/ Rerun

Spec == Init /\ [][Next]_vars

\* ----------------------------------------------------- pipeline in isolation
\* The pipeline applied to every fetch result within the bounds: the state
\* right after a load whose fetch returned (raw_fills, raw_funding).
OptFills == {None} \cup { Some(l) : l \in FillLists }
OptFunding == {None} \cup { Some(l) : l \in FundingLists }

InitPipeline ==
  /\ data_loaded = TRUE
  /\ address = Text(MinAddrLen)
  /\ ui = [clicked |-> TRUE, wallet_address |-> Text(MinAddrLen),
           invalid_error |-> FALSE,
           requests |-> <<FillsRequest(Text(MinAddrLen)), FundingRequest(Text(MinAddrLen))>>,
           fetch_error |-> "none", fetched |-> TRUE, net |-> OkNet]
  /\ raw_fills \in OptFills
  /\ raw_funding \in OptFunding
  /\ view = NoView
  /\ pd_out = NotCalled

\* process_data called on the fetch result as it is.
CallProcessData ==
  /\ ~pd_out.called
  /\ pd_out' = Frames(raw_fills, raw_funding)
  /\ UNCHANGED <<data_loaded, address, ui, raw_fills, raw_funding, view>>

\* The main block (lines 104-204) on the fetch result.
RenderMain ==
  /\ view.kind = "none"
  /\ view' = main_view(raw_fills, raw_funding)
  /\ pd_out' = IF Truthy(raw_fills) THEN Frames(raw_fills, raw_funding) ELSE pd_out
  /\ UNCHANGED <<data_loaded, address, ui, raw_fills, raw_funding>>

NextPipeline == CallProcessData \/ RenderMain

SpecPipeline == InitPipeline /\ [][NextPipeline]_vars

\* ================================================================ claims
\* What the claims speak of, read off the raw fetch result.
F == raw_fills.list
G == raw_funding.list

DayOf(r) == r.time \div MsPerDay
FillDates == { DayOf(F[i]) : i \in 1..Len(F) }
FundingDates == { DayOf(G[i]) : i \in 1..Len(G) }
AggregateDates == { view.daily[i].date : i \in 1..Len(view.daily) }

\* The amount a text stands for; a text that is no number adds nothing to a sum.
Amount(s) == IF s \in DOMAIN Numeral THEN Numeral[s] ELSE 0
IsNumber(s) == s \in DOMAIN Numeral

RECURSIVE Total(_, _)
Total(list, field) ==
  IF list = <<>> THEN 0 ELSE Amount(Head(list)[field]) + Total(Tail(list), field)

TotalOn(list, field, d) == Total(SelectSeq(list, LAMBDA r : DayOf(r) = d), field)

RowOf(d) == view.daily[CHOOSE i \in 1..Len(view.daily) : view.daily[i].date = d]

FetchFailed(net) ==
  \/ net.fills.raised
  \/ net.funding.raised
  \/ net.fills.status_code # 200
  \/ net.funding.status_code # 200

\* C1: a Load click with an address shorter than 42 characters shows the
\* invalid-input error and sends no request in that run, whatever the session
\* state was.
C1_InvalidLoadSendsNothing ==
  (ui.clicked /\ Len(ui.wallet_address) < 42)
    => (ui.invalid_error /\ ui.requests = <<>>)

\* C2: when either call answers with a status other than 200, or raises, the
\* fetch shows an error and returns (None, None), and the page shows no
\* metrics and no daily rows.
C2_AllOrNothing ==
  (ui.fetched /\ FetchFailed(ui.net))
    => /\ ui.fetch_error # "none"
       /\ raw_fills = None
       /\ raw_funding = None
       /\ view.kind # "dashboard"
       /\ view.metrics = <<>>
       /\ view.daily = <<>>

C2_Witness ==
  /\ ui.fetched
  /\ ~ui.net.fills.raised /\ ui.net.fills.status_code = 200
  /\ ~ui.net.funding.raised /\ ui.net.funding.status_code = 500
  /\ ui.net.json_ok
  /\ ui.fetch_error = "api"
  /\ Len(ui.requests) = 2
  /\ view.kind = "warning"

\* C3 as written: for any lists F and G, once the main block has run, the
\* dates of the daily aggregate are the union of the dates of F and of G, each
\* once.
C3_UnionOfDatesAnyInput ==
  (view.kind # "none" /\ raw_fills.some /\ raw_funding.some)
    => /\ AggregateDates = FillDates \cup FundingDates
       /\ Cardinality(AggregateDates) = Len(view.daily)

\* C3 amended: for any non-empty F and any G the dates of the daily aggregate
\* are the union of the dates of F and of G, each in exactly one row; with F
\* empty or absent no aggregate row is produced.
C3_UnionOfDates ==
  /\ view.kind = "dashboard"
       => /\ AggregateDates = FillDates \cup FundingDates
          /\ Cardinality(AggregateDates) = Len(view.daily)
  /\ (view.kind # "none" /\ F = <<>>) => view.daily = <<>>

C3_Witness ==
  /\ view.kind = "dashboard"
  /\ FillDates \ FundingDates # {}
  /\ FundingDates \ FillDates # {}
  /\ Len(F) > Cardinality(FillDates)
  /\ Len(view.daily) = 2

\* C4: the aggregate rows are in strictly ascending date order, each row's
\* cumulative_pnl is the sum of daily_net_pnl of the rows up to it, and no row
\* stands for a day without events.
RECURSIVE NetUpTo(_)
NetUpTo(i) == IF i = 0 THEN 0 ELSE NetUpTo(i - 1) + view.daily[i].daily_net_pnl.v

C4_PrefixSum ==
  view.kind = "dashboard"
    => /\ \A i \in 1..(Len(view.daily) - 1) : view.daily[i].date < view.daily[i + 1].date
       /\ \A i \in 1..Len(view.daily) :
            /\ ~view.daily[i].daily_net_pnl.nan
            /\ view.daily[i].cumulative_pnl = Num(NetUpTo(i))
            /\ view.daily[i].date \in FillDates \cup FundingDates

C4_Witness ==
  /\ view.kind = "dashboard"
  /\ Len(view.daily) = 2
  /\ view.daily[1].date + 1 < view.daily[2].date
  /\ view.daily[1].daily_net_pnl.v # 0
  /\ view.daily[2].daily_net_pnl.v # 0
  /\ view.daily[2].cumulative_pnl.v # view.daily[2].daily_net_pnl.v
  /\ DayOf(F[1]) > DayOf(F[Len(F)])

Winning == { i \in 1..Len(F) : IsNumber(F[i].closedPnl) /\ Amount(F[i].closedPnl) > 0 }
Closing == { i \in 1..Len(F) : ~(IsNumber(F[i].closedPnl) /\ Amount(F[i].closedPnl) = 0) }

C7_NetIdentityAnyInput ==
  (view.kind # "none" /\ raw_fills.some /\ raw_funding.some)
    => /\ Len(view.metrics) = 1
       /\ view.metrics[1].total_closed_pnl = Total(F, "closedPnl")
       /\ view.metrics[1].total_trading_fees = Total(F, "fee")
       /\ view.metrics[1].total_funding = Total(G, "usdc")
       /\ view.metrics[1].net_pnl =
            Total(F, "closedPnl") - Total(F, "fee") + Total(G, "usdc")

\* C7 amended: for any non-empty fills and any funding, empty funding
\* included, net_pnl = total closedPnl - total fees + total funding, with the
\* totals summed over all fills and all funding payments (0 for empty
\* funding); with empty or absent fills no summary is computed at all.
C7_NetIdentity ==
  /\ view.kind = "dashboard"
       => /\ Len(view.metrics) = 1
          /\ view.metrics[1].total_closed_pnl = Total(F, "closedPnl")
          /\ view.metrics[1].total_trading_fees = Total(F, "fee")
          /\ view.metrics[1].total_funding = Total(G, "usdc")
          /\ view.metrics[1].net_pnl =
               Total(F, "closedPnl") - Total(F, "fee") + Total(G, "usdc")
  /\ (view.kind # "none" /\ F = <<>>) => view.metrics = <<>>

C7_Witness ==
  /\ view.kind = "dashboard"
  /\ Total(F, "closedPnl") # 0
  /\ Total(F, "fee") # 0
  /\ Total(G, "usdc") # 0
  /\ view.metrics[1].net_pnl # Total(F, "closedPnl") + Total(F, "fee") + Total(G, "usdc")

\* C8: the "no data found" warning is shown exactly when the fetch succeeded
\* with zero fills, and a run whose fetch failed shows the fetch error and not
\* the warning.
C8_WarningOnlyOnEmpty ==
  ui.fetched
    => /\ (view.kind = "warning") <=> (ui.fetch_error = "none" /\ F = <<>>)
       /\ ui.fetch_error # "none" => view.kind # "warning"

\* C9: process_data returns two empty frames when the raw fills are empty or
\* absent, whatever the raw funding holds, and the main block then produces no
\* aggregate row.
C9_EmptyFillsNoData ==
  /\ (pd_out.called /\ F = <<>>)
       => (pd_out.df_fills.rows = <<>> /\ pd_out.df_funding.rows = <<>>)
  /\ (view.kind # "none" /\ F = <<>>) => (view.kind = "warning" /\ AggregateDates = {})

C9_Witness ==
  /\ pd_out.called
  /\ F = <<>>
  /\ G # <<>>
  /\ view.kind = "warning"

====
